---- MODULE Spec2Model ----
(***************************************************************************)
(* DeleteBlobBuilder (azure/storage/blob/requests/delete_blob_builder.rs): *)
(* a typestate builder for the "delete blob" request and the finalize()    *)
(* pipeline that turns a complete builder into one HTTP DELETE and its     *)
(* typed outcome.                                                          *)
(*                                                                         *)
(* The three PhantomData type parameters (ContainerNameSet, BlobNameSet,   *)
(* DeleteSnapshotMethodSet, each Yes or No) are modelled as record fields  *)
(* p_container_name, p_blob_name, p_delete_snapshots_method: an impl block *)
(* that exists only for `Yes` becomes a predicate on those fields.         *)
(***************************************************************************)
EXTENDS Naturals, Sequences, FiniteSets, TLC

(***************************************************************************)
(* Bounds of the model: how many distinct argument values the caller draws *)
(* from.                                                                   *)
(***************************************************************************)
NumNames == 2
NumIds == 2
\* how many builder values (the original and its clones) one chain may hold
MaxValues == 2
MaxTimeout == 2

\* StatusCode::ACCEPTED, the one status finalize() accepts
ACCEPTED == 202

NamePoolC == <<"c", "c2", "c3", "c4">>
NamePoolB == <<"b", "b2", "b3", "b4">>
LeasePool == <<"lease-1", "lease-2", "lease-3", "lease-4">>
RequestIdPool == <<"req-1", "req-2", "req-3", "req-4">>

Clients == {"acct1", "acct2"}
ContainerNames == {NamePoolC[i] : i \in 1..NumNames}
BlobNames == {NamePoolB[i] : i \in 1..NumNames}
LeaseIds == {LeasePool[i] : i \in 1..NumIds}
ClientRequestIds == {RequestIdPool[i] : i \in 1..NumIds}
Timeouts == {30 * i : i \in 1..MaxTimeout}

\* enum DeleteSnapshotsMethod
DeleteSnapshotsMethod == {"Include", "Only"}

\* PhantomData<Yes> / PhantomData<No>
Yes == "Yes"
No == "No"

\* Option<T>
None == <<>>
Some(x) == <<x>>

\* Option::unwrap: panics on None
PANIC == "panic: Option::unwrap on a None value"
unwrap(o) == IF o = None THEN PANIC ELSE o[1]

\* Result<T, E>
Ok(v) == [ok |-> TRUE, val |-> v]
Err(e) == [ok |-> FALSE, err |-> e]

(***************************************************************************)
(* The builder: constructor and setters. Every setter builds a new value   *)
(* field by field, as the source does.                                     *)
(***************************************************************************)
new_default_counts(client) ==
    [client |-> client,
     p_container_name |-> No,
     container_name |-> None,
     p_blob_name |-> No,
     blob_name |-> None,
     p_delete_snapshots_method |-> Yes,
     delete_snapshots_method |-> "Include",
     timeout |-> None,
     lease_id |-> None,
     client_request_id |-> None]

new(client) ==
    [client |-> client,
     p_container_name |-> No,
     container_name |-> None,
     p_blob_name |-> No,
     blob_name |-> None,
     p_delete_snapshots_method |-> No,
     delete_snapshots_method |-> "Include",
     timeout |-> None,
     lease_id |-> None,
     client_request_id |-> None]

with_container_name_keeps_old(self, name) ==
    [client |-> self.client,
     p_container_name |-> Yes,
     p_blob_name |-> self.p_blob_name,
     p_delete_snapshots_method |-> self.p_delete_snapshots_method,
     container_name |-> self.container_name,
     blob_name |-> self.blob_name,
     delete_snapshots_method |-> self.delete_snapshots_method,
     timeout |-> self.timeout,
     lease_id |-> self.lease_id,
     client_request_id |-> self.client_request_id]

with_container_name(self, name) ==
    [client |-> self.client,
     p_container_name |-> Yes,
     p_blob_name |-> self.p_blob_name,
     p_delete_snapshots_method |-> self.p_delete_snapshots_method,
     container_name |-> Some(name),
     blob_name |-> self.blob_name,
     delete_snapshots_method |-> self.delete_snapshots_method,
     timeout |-> self.timeout,
     lease_id |-> self.lease_id,
     client_request_id |-> self.client_request_id]

with_blob_name_first_write_wins(self, name) ==
    [client |-> self.client,
     p_container_name |-> self.p_container_name,
     p_blob_name |-> Yes,
     p_delete_snapshots_method |-> self.p_delete_snapshots_method,
     container_name |-> self.container_name,
     blob_name |-> IF self.blob_name = None THEN Some(name) ELSE self.blob_name,
     delete_snapshots_method |-> self.delete_snapshots_method,
     timeout |-> self.timeout,
     lease_id |-> self.lease_id,
     client_request_id |-> self.client_request_id]

with_blob_name_drops_timeout(self, name) ==
    [client |-> self.client,
     p_container_name |-> self.p_container_name,
     p_blob_name |-> Yes,
     p_delete_snapshots_method |-> self.p_delete_snapshots_method,
     container_name |-> self.container_name,
     blob_name |-> Some(name),
     delete_snapshots_method |-> self.delete_snapshots_method,
     timeout |-> None,
     lease_id |-> self.lease_id,
     client_request_id |-> self.client_request_id]

with_blob_name(self, name) ==
    [client |-> self.client,
     p_container_name |-> self.p_container_name,
     p_blob_name |-> Yes,
     p_delete_snapshots_method |-> self.p_delete_snapshots_method,
     container_name |-> self.container_name,
     blob_name |-> Some(name),
     delete_snapshots_method |-> self.delete_snapshots_method,
     timeout |-> self.timeout,
     lease_id |-> self.lease_id,
     client_request_id |-> self.client_request_id]

with_delete_snapshots_method_unsets_blob(self, method) ==
    [client |-> self.client,
     p_container_name |-> self.p_container_name,
     p_blob_name |-> No,
     p_delete_snapshots_method |-> Yes,
     container_name |-> self.container_name,
     blob_name |-> None,
     delete_snapshots_method |-> method,
     timeout |-> self.timeout,
     lease_id |-> self.lease_id,
     client_request_id |-> self.client_request_id]

with_delete_snapshots_method_keeps_default(self, method) ==
    [client |-> self.client,
     p_container_name |-> self.p_container_name,
     p_blob_name |-> self.p_blob_name,
     p_delete_snapshots_method |-> Yes,
     container_name |-> self.container_name,
     blob_name |-> self.blob_name,
     delete_snapshots_method |-> self.delete_snapshots_method,
     timeout |-> self.timeout,
     lease_id |-> self.lease_id,
     client_request_id |-> self.client_request_id]

with_delete_snapshots_method(self, method) ==
    [client |-> self.client,
     p_container_name |-> self.p_container_name,
     p_blob_name |-> self.p_blob_name,
     p_delete_snapshots_method |-> Yes,
     container_name |-> self.container_name,
     blob_name |-> self.blob_name,
     delete_snapshots_method |-> method,
     timeout |-> self.timeout,
     lease_id |-> self.lease_id,
     client_request_id |-> self.client_request_id]

with_timeout_first_write_wins(self, t) ==
    [client |-> self.client,
     p_container_name |-> self.p_container_name,
     p_blob_name |-> self.p_blob_name,
     p_delete_snapshots_method |-> self.p_delete_snapshots_method,
     container_name |-> self.container_name,
     blob_name |-> self.blob_name,
     delete_snapshots_method |-> self.delete_snapshots_method,
     timeout |-> IF self.timeout = None THEN Some(t) ELSE self.timeout,
     lease_id |-> self.lease_id,
     client_request_id |-> self.client_request_id]

with_timeout(self, t) ==
    [client |-> self.client,
     p_container_name |-> self.p_container_name,
     p_blob_name |-> self.p_blob_name,
     p_delete_snapshots_method |-> self.p_delete_snapshots_method,
     container_name |-> self.container_name,
     blob_name |-> self.blob_name,
     delete_snapshots_method |-> self.delete_snapshots_method,
     timeout |-> Some(t),
     lease_id |-> self.lease_id,
     client_request_id |-> self.client_request_id]

with_lease_id_clobbers_request_id(self, id) ==
    [client |-> self.client,
     p_container_name |-> self.p_container_name,
     p_blob_name |-> self.p_blob_name,
     p_delete_snapshots_method |-> self.p_delete_snapshots_method,
     container_name |-> self.container_name,
     blob_name |-> self.blob_name,
     delete_snapshots_method |-> self.delete_snapshots_method,
     timeout |-> self.timeout,
     lease_id |-> Some(id),
     client_request_id |-> None]

with_lease_id(self, id) ==
    [client |-> self.client,
     p_container_name |-> self.p_container_name,
     p_blob_name |-> self.p_blob_name,
     p_delete_snapshots_method |-> self.p_delete_snapshots_method,
     container_name |-> self.container_name,
     blob_name |-> self.blob_name,
     delete_snapshots_method |-> self.delete_snapshots_method,
     timeout |-> self.timeout,
     lease_id |-> Some(id),
     client_request_id |-> self.client_request_id]

with_client_request_id_toggles(self, id) ==
    [client |-> self.client,
     p_container_name |-> self.p_container_name,
     p_blob_name |-> self.p_blob_name,
     p_delete_snapshots_method |-> self.p_delete_snapshots_method,
     container_name |-> self.container_name,
     blob_name |-> self.blob_name,
     delete_snapshots_method |-> self.delete_snapshots_method,
     timeout |-> self.timeout,
     lease_id |-> self.lease_id,
     client_request_id |->
         IF self.client_request_id = Some(id) THEN None ELSE Some(id)]

with_client_request_id(self, id) ==
    [client |-> self.client,
     p_container_name |-> self.p_container_name,
     p_blob_name |-> self.p_blob_name,
     p_delete_snapshots_method |-> self.p_delete_snapshots_method,
     container_name |-> self.container_name,
     blob_name |-> self.blob_name,
     delete_snapshots_method |-> self.delete_snapshots_method,
     timeout |-> self.timeout,
     lease_id |-> self.lease_id,
     client_request_id |-> Some(id)]

\* #[derive(Clone)]: Clone::clone copies every field
clone(self) ==
    [client |-> self.client,
     p_container_name |-> self.p_container_name,
     p_blob_name |-> self.p_blob_name,
     p_delete_snapshots_method |-> self.p_delete_snapshots_method,
     container_name |-> self.container_name,
     blob_name |-> self.blob_name,
     delete_snapshots_method |-> self.delete_snapshots_method,
     timeout |-> self.timeout,
     lease_id |-> self.lease_id,
     client_request_id |-> self.client_request_id]

(***************************************************************************)
(* Which impl blocks exist for a builder value, and the accessors.         *)
(***************************************************************************)
\* impl ContainerNameRequired for DeleteBlobBuilder<Yes, _, _>
ContainerNameRequired(self) == self.p_container_name = Yes
\* impl BlobNameRequired for DeleteBlobBuilder<_, Yes, _>
BlobNameRequired(self) == self.p_blob_name = Yes
\* impl DeleteSnapshotsMethodRequired for DeleteBlobBuilder<_, _, Yes>
DeleteSnapshotsMethodRequired(self) == self.p_delete_snapshots_method = Yes
\* impl DeleteBlobBuilder<Yes, Yes, Yes> { fn finalize }
FinalizeAvailable(self) ==
    /\ self.p_container_name = Yes
    /\ self.p_blob_name = Yes
    /\ self.p_delete_snapshots_method = Yes

client(self) == self.client
container_name(self) == unwrap(self.container_name)
blob_name(self) == unwrap(self.blob_name)
delete_snapshots_method(self) == self.delete_snapshots_method
timeout(self) == self.timeout
lease_id(self) == self.lease_id
client_request_id(self) == self.client_request_id

(***************************************************************************)
(* Collaborators of finalize(): their code is outside this file; they are  *)
(* modelled from their documented interface.                               *)
(***************************************************************************)
\* generate_blob_uri(&self, None): needs ClientRequired, ContainerNameRequired
\* and BlobNameRequired and reads the builder through those accessors
generate_blob_uri(self) ==
    "https://" \o client(self) \o ".blob.core.windows.net/"
        \o container_name(self) \o "/" \o blob_name(self)

\* TimeoutOption::to_uri_parameter
to_uri_parameter(self) ==
    IF timeout(self) = None THEN None
    ELSE Some("timeout=" \o ToString(timeout(self)[1]))

\* the wire value of a DeleteSnapshotsMethod
WireValue(method) == IF method = "Include" THEN "include" ELSE "only"

\* DeleteSnapshotsMethodRequired::add_header
DeleteSnapshotsMethodRequired_add_header(self, headers) ==
    Append(headers,
           <<"x-ms-delete-snapshots", WireValue(delete_snapshots_method(self))>>)

\* LeaseIdOption::add_header
LeaseIdOption_add_header(self, headers) ==
    IF lease_id(self) = None THEN headers
    ELSE Append(headers, <<"x-ms-lease-id", lease_id(self)[1]>>)

\* ClientRequestIdOption::add_header
ClientRequestIdOption_add_header(self, headers) ==
    IF client_request_id(self) = None THEN headers
    ELSE Append(headers, <<"x-ms-client-request-id", client_request_id(self)[1]>>)

\* what Client::perform_request can return: a pending response or a failure
TransportErrors ==
    {[kind |-> "TransportError", cause |-> c] :
        c \in {"connection refused", "dns failure"}}
PerformRequestResults == {Ok("pending")} \cup {Err(e) : e \in TransportErrors}

\* the transport responses the service can give
StatusCodes == {200, 202, 404}
ResponseHeaders == {{<<"x-ms-request-id", "abc">>}, {}}
Responses ==
    {[status |-> s, headers |-> h, body |-> IF s = 404 THEN "BlobNotFound" ELSE ""] :
        s \in StatusCodes, h \in ResponseHeaders}

\* check_status_extract_headers_and_body(response, expected_status)
check_status_extract_headers_and_body(resp, expected) ==
    IF resp.status = expected
    THEN Ok([headers |-> resp.headers, body |-> resp.body])
    ELSE Err([kind |-> "UnexpectedStatus", code |-> resp.status, body |-> resp.body])

\* DeleteBlobResponse::from_headers
from_headers(headers) ==
    IF \E h \in headers : h[1] = "x-ms-request-id"
    THEN Ok([request_id |-> (CHOOSE h \in headers : h[1] = "x-ms-request-id")[2]])
    ELSE Err([kind |-> "ResponseParseError"])

(***************************************************************************)
(* finalize(): the request it builds.                                      *)
(***************************************************************************)
FinalizeUri_always_appends(self) ==
    generate_blob_uri(self) \o "?" \o
        (IF to_uri_parameter(self) = None THEN "" ELSE to_uri_parameter(self)[1])

\* let mut uri = generate_blob_uri(..); if let Some(nm) = to_uri_parameter ..
FinalizeUri(self) ==
    LET uri == generate_blob_uri(self)
        nm == to_uri_parameter(self)
    IN  IF nm # None THEN uri \o "?" \o nm[1] ELSE uri

FinalizeHeaders_no_lease(self) ==
    ClientRequestIdOption_add_header(self,
        DeleteSnapshotsMethodRequired_add_header(self, <<>>))

\* the closure handed to perform_request
FinalizeHeaders(self) ==
    ClientRequestIdOption_add_header(self,
        LeaseIdOption_add_header(self,
            DeleteSnapshotsMethodRequired_add_header(self, <<>>)))

\* the arguments of self.client().perform_request(&uri, &Method::DELETE, .., None)
FinalizeRequest(self) ==
    [client |-> client(self),
     uri |-> FinalizeUri(self),
     method |-> "DELETE",
     headers |-> FinalizeHeaders(self),
     body |-> None]

\* the calls of the closure handed to perform_request, in program order
HeaderClosureSteps ==
    <<"add_header(delete_snapshots_method)", "add_header(lease_id)",
      "add_header(client_request_id)">>

\* Client::perform_request: runs the header closure on the request it builds,
\* then issues the network call
PerformRequestSteps(closure) == <<"perform_request">> \o closure \o <<"send">>

FinalizeSteps_appends_timeout_late ==
    <<"generate_blob_uri">> \o PerformRequestSteps(HeaderClosureSteps)
        \o <<"to_uri_parameter">>

\* the stages finalize() runs before it returns, in program order
FinalizeSteps ==
    <<"generate_blob_uri", "to_uri_parameter">>
        \o PerformRequestSteps(HeaderClosureSteps)

\* Future::from_err with Error = AzureError on both sides: From<T> for T
from_err(r) == r

VARIABLES
    builder,    \* the builder value the chain currently holds
    pc,         \* "building", then the stage of the future finalize() returned
    request,    \* Some(the request handed to Client::perform_request)
    req,        \* Some(what perform_request returned)
    response,   \* Some(the transport response the status check saw)
    fut,        \* Some(the value the future chain has resolved to so far)
    steps,      \* the stages executed since finalize() was called
    last,       \* the operation applied last and its argument
    repeated,   \* the last setter call repeated the call right before it
    overwrote,  \* the last setter call replaced a different stored value
    order,      \* mandatory setters in the order of their first call
    args,       \* per setter, the argument of its most recent call
    saved,      \* Some(a clone of the builder the caller has kept, with its calls)
    made,       \* builder values of this chain: the one from new() and its clones
    issued,     \* requests the chain's finalize() calls have handed to the Client
    other       \* Some(a second chain started from the same Client)

pipeline == <<request, req, response, fut, steps>>
history == <<last, repeated, overwrote, order, args>>
extra == <<saved, made, issued, other>>
vars == <<builder, pc, request, req, response, fut, steps,
          last, repeated, overwrote, order, args, saved, made, issued, other>>

MandatorySetters ==
    {"with_container_name", "with_blob_name", "with_delete_snapshots_method"}
OptionalSetters == {"with_timeout", "with_lease_id", "with_client_request_id"}
Setters == MandatorySetters \cup OptionalSetters

NoArgs == [s \in Setters |-> None]

Call(op, arg) == [op |-> op, arg |-> arg]

\* the bookkeeping of one setter call; old is the value the field held before
Record(op, v, old) ==
    /\ last' = Call(op, Some(v))
    /\ repeated' = (last = Call(op, Some(v)))
    /\ overwrote' = (old # None /\ old # Some(v))
    /\ order' = IF op \in MandatorySetters /\ args[op] = None
                THEN Append(order, op) ELSE order
    /\ args' = [args EXCEPT ![op] = Some(v)]

Init ==
    /\ \E c \in Clients : builder = new(c) /\ last = Call("new", Some(c))
    /\ pc = "building"
    /\ request = None /\ req = None /\ response = None /\ fut = None
    /\ steps = <<>>
    /\ repeated = FALSE
    /\ overwrote = FALSE
    /\ order = <<>>
    /\ args = NoArgs
    /\ saved = None
    /\ made = 1
    /\ issued = 0
    /\ other = None

\* Client::delete_blob(): a new chain starts from DeleteBlobBuilder::new
New(c) ==
    /\ builder' = new(c)
    /\ pc' = "building"
    /\ request' = None /\ req' = None /\ response' = None /\ fut' = None
    /\ steps' = <<>>
    /\ last' = Call("new", Some(c))
    /\ repeated' = FALSE
    /\ overwrote' = FALSE
    /\ order' = <<>>
    /\ args' = NoArgs
    /\ saved' = None
    /\ made' = 1
    /\ issued' = 0
    /\ UNCHANGED other

WithContainerName(v) ==
    /\ pc = "building"
    /\ builder' = with_container_name(builder, v)
    /\ Record("with_container_name", v, builder.container_name)
    /\ UNCHANGED <<pc, pipeline, extra>>

WithBlobName(v) ==
    /\ pc = "building"
    /\ builder' = with_blob_name(builder, v)
    /\ Record("with_blob_name", v, builder.blob_name)
    /\ UNCHANGED <<pc, pipeline, extra>>

WithDeleteSnapshotsMethod(m) ==
    /\ pc = "building"
    /\ builder' = with_delete_snapshots_method(builder, m)
    /\ Record("with_delete_snapshots_method", m,
              IF builder.p_delete_snapshots_method = Yes
              THEN Some(builder.delete_snapshots_method) ELSE None)
    /\ UNCHANGED <<pc, pipeline, extra>>

WithTimeout(t) ==
    /\ pc = "building"
    /\ builder' = with_timeout(builder, t)
    /\ Record("with_timeout", t, builder.timeout)
    /\ UNCHANGED <<pc, pipeline, extra>>

WithLeaseId(id) ==
    /\ pc = "building"
    /\ builder' = with_lease_id(builder, id)
    /\ Record("with_lease_id", id, builder.lease_id)
    /\ UNCHANGED <<pc, pipeline, extra>>

WithClientRequestId(id) ==
    /\ pc = "building"
    /\ builder' = with_client_request_id(builder, id)
    /\ Record("with_client_request_id", id, builder.client_request_id)
    /\ UNCHANGED <<pc, pipeline, extra>>

(***************************************************************************)
(* The builder derives Clone: the caller may keep a clone of the value it  *)
(* holds and go on with the clone later, when the value it cloned has been *)
(* moved into finalize() or dropped.                                       *)
(***************************************************************************)
Clone ==
    /\ pc = "building"
    /\ saved = None
    /\ made < MaxValues
    /\ saved' = Some([builder |-> clone(builder), order |-> order, args |-> args])
    /\ made' = made + 1
    /\ last' = Call("clone", None)
    /\ repeated' = FALSE
    /\ overwrote' = FALSE
    /\ UNCHANGED <<builder, pc, pipeline, order, args, issued, other>>

UseClone ==
    /\ saved # None
    /\ builder' = saved[1].builder
    /\ order' = saved[1].order
    /\ args' = saved[1].args
    /\ saved' = None
    /\ pc' = "building"
    /\ last' = Call("use_clone", None)
    /\ repeated' = FALSE
    /\ overwrote' = FALSE
    /\ UNCHANGED <<pipeline, made, issued, other>>

Finalize_borrows(r) ==
    /\ pc = "building"
    /\ FinalizeAvailable(builder)
    /\ request' = Some(FinalizeRequest(builder))
    /\ req' = Some(r)
    /\ fut' = Some(from_err(r))
    /\ steps' = FinalizeSteps
    /\ pc' = "building"
    /\ last' = Call("finalize", None)
    /\ repeated' = FALSE
    /\ overwrote' = FALSE
    /\ response' = None
    /\ issued' = issued + 1
    /\ UNCHANGED <<builder, order, args, saved, made, other>>

(***************************************************************************)
(* A second chain started from the Client of the first. It owns its        *)
(* builder value; the two chains share the &Client only.                   *)
(***************************************************************************)
chain1 == <<builder, pc, pipeline, history, saved, made, issued>>

NewOther ==
    /\ other = None
    /\ other' = Some([builder |-> new(client(builder)), pc |-> "building",
                      request |-> None])
    /\ UNCHANGED chain1

\* a setter of the second chain returned the builder b2
OtherStep(b2) ==
    /\ other # None
    /\ other[1].pc = "building"
    /\ other' = Some([other[1] EXCEPT !.builder = b2])
    /\ UNCHANGED chain1

OtherWithContainerName(v) == OtherStep(with_container_name(other[1].builder, v))
OtherWithBlobName(v) == OtherStep(with_blob_name(other[1].builder, v))
OtherWithDeleteSnapshotsMethod(m) ==
    OtherStep(with_delete_snapshots_method(other[1].builder, m))
OtherWithTimeout(t) == OtherStep(with_timeout(other[1].builder, t))
OtherWithLeaseId(id) == OtherStep(with_lease_id(other[1].builder, id))
OtherWithClientRequestId(id) ==
    OtherStep(with_client_request_id(other[1].builder, id))

OtherFinalize_reads_first_chain ==
    /\ other # None
    /\ other[1].pc = "building"
    /\ FinalizeAvailable(other[1].builder)
    /\ other' = Some([other[1] EXCEPT
                        !.pc = "finalized",
                        !.request = Some(FinalizeRequest(builder))])
    /\ UNCHANGED chain1

\* finalize(self) of the second chain, up to the perform_request call
OtherFinalize ==
    /\ other # None
    /\ other[1].pc = "building"
    /\ FinalizeAvailable(other[1].builder)
    /\ other' = Some([other[1] EXCEPT
                        !.pc = "finalized",
                        !.request = Some(FinalizeRequest(other[1].builder))])
    /\ UNCHANGED chain1

(***************************************************************************)
(* finalize(self): builds the URI and the headers, hands the request to    *)
(* the Client and returns the future done(req).from_err().and_then(..)     *)
(* .and_then(..). r is what perform_request returns. The future is new: it *)
(* has received no response, whatever an earlier future of a clone got.    *)
(***************************************************************************)
Finalize(r) ==
    /\ pc = "building"
    /\ FinalizeAvailable(builder)
    /\ request' = Some(FinalizeRequest(builder))
    /\ req' = Some(r)
    /\ fut' = Some(from_err(r))
    /\ steps' = FinalizeSteps
    /\ pc' = "and_then_check_status"
    /\ last' = Call("finalize", None)
    /\ repeated' = FALSE
    /\ overwrote' = FALSE
    /\ response' = None
    /\ issued' = issued + 1
    /\ UNCHANGED <<builder, order, args, saved, made, other>>

AndThenCheckStatus_retries(resp) ==
    /\ pc = "and_then_check_status"
    /\ IF fut[1].ok
       THEN /\ response' = Some(resp)
            /\ fut' = Some(check_status_extract_headers_and_body(resp, ACCEPTED))
            /\ steps' = IF resp.status = ACCEPTED
                        THEN Append(steps, "check_status_extract_headers_and_body")
                        ELSE Append(steps, "check_status_extract_headers_and_body")
                                 \o PerformRequestSteps(HeaderClosureSteps)
       ELSE UNCHANGED <<response, fut, steps>>
    /\ pc' = "and_then_from_headers"
    /\ UNCHANGED <<builder, request, req, history, extra>>

AndThenCheckStatus_then(resp) ==
    /\ pc = "and_then_check_status"
    /\ response' = Some(resp)
    /\ fut' = Some(check_status_extract_headers_and_body(resp, ACCEPTED))
    /\ steps' = Append(steps, "check_status_extract_headers_and_body")
    /\ pc' = "and_then_from_headers"
    /\ UNCHANGED <<builder, request, req, history, extra>>

\* .and_then(move |future_response| check_status_extract_headers_and_body(
\*     future_response, StatusCode::ACCEPTED)): runs only on Ok
AndThenCheckStatus(resp) ==
    /\ pc = "and_then_check_status"
    /\ IF fut[1].ok
       THEN /\ response' = Some(resp)
            /\ fut' = Some(check_status_extract_headers_and_body(resp, ACCEPTED))
            /\ steps' = Append(steps, "check_status_extract_headers_and_body")
       ELSE UNCHANGED <<response, fut, steps>>
    /\ pc' = "and_then_from_headers"
    /\ UNCHANGED <<builder, request, req, history, extra>>

AndThenFromHeaders_defaults ==
    /\ pc = "and_then_from_headers"
    /\ IF fut[1].ok
       THEN /\ fut' = IF from_headers(fut[1].val.headers).ok
                      THEN Some(from_headers(fut[1].val.headers))
                      ELSE Some(Ok([request_id |-> ""]))
            /\ steps' = Append(steps, "from_headers")
       ELSE UNCHANGED <<fut, steps>>
    /\ pc' = "resolved"
    /\ UNCHANGED <<builder, request, req, response, history, extra>>

AndThenFromHeaders_then ==
    /\ pc = "and_then_from_headers"
    /\ IF response # None
       THEN /\ fut' = Some(from_headers(response[1].headers))
            /\ steps' = Append(steps, "from_headers")
       ELSE UNCHANGED <<fut, steps>>
    /\ pc' = "resolved"
    /\ UNCHANGED <<builder, request, req, response, history, extra>>

\* .and_then(|(headers, _body)| done(DeleteBlobResponse::from_headers(&headers)))
AndThenFromHeaders ==
    /\ pc = "and_then_from_headers"
    /\ IF fut[1].ok
       THEN /\ fut' = Some(from_headers(fut[1].val.headers))
            /\ steps' = Append(steps, "from_headers")
       ELSE UNCHANGED <<fut, steps>>
    /\ pc' = "resolved"
    /\ UNCHANGED <<builder, request, req, response, history, extra>>

Next ==
    \/ \E c \in Clients : New(c)
    \/ \E v \in ContainerNames : WithContainerName(v)
    \/ \E v \in BlobNames : WithBlobName(v)
    \/ \E m \in DeleteSnapshotsMethod : WithDeleteSnapshotsMethod(m)
    \/ \E t \in Timeouts : WithTimeout(t)
    \/ \E id \in LeaseIds : WithLeaseId(id)
    \/ \E id \in ClientRequestIds : WithClientRequestId(id)
    \/ \E r \in PerformRequestResults : Finalize(r)
    \/ \E resp \in Responses : AndThenCheckStatus(resp)
    \/ AndThenFromHeaders

Spec == Init /\ [][Next]_vars

(***************************************************************************)
(* Helpers of the properties.                                              *)
(***************************************************************************)
Range(seq) == {seq[i] : i \in 1..Len(seq)}

HeaderNames(headers) == {headers[i][1] : i \in 1..Len(headers)}

\* one setter applied to a builder
Apply(op, self, v) ==
    CASE op = "with_container_name" -> with_container_name(self, v)
      [] op = "with_blob_name" -> with_blob_name(self, v)
      [] op = "with_delete_snapshots_method" -> with_delete_snapshots_method(self, v)
      [] op = "with_timeout" -> with_timeout(self, v)
      [] op = "with_lease_id" -> with_lease_id(self, v)
      [] op = "with_client_request_id" -> with_client_request_id(self, v)

ApplyIfCalled(op, self, a) == IF a[op] = None THEN self ELSE Apply(op, self, a[op][1])

\* the builder one fixed ordering of the calls gives for the arguments a
Canonical(c, a) ==
    ApplyIfCalled("with_client_request_id",
      ApplyIfCalled("with_lease_id",
        ApplyIfCalled("with_timeout",
          ApplyIfCalled("with_delete_snapshots_method",
            ApplyIfCalled("with_blob_name",
              ApplyIfCalled("with_container_name", new(c), a), a), a), a), a), a)

\* what the contract says a setter does: one field, and for a mandatory
\* setter that field's marker, everything else as it was
SetterEffect(b, op, v) ==
    CASE op = "with_container_name" ->
            [b EXCEPT !.container_name = Some(v), !.p_container_name = Yes]
      [] op = "with_blob_name" ->
            [b EXCEPT !.blob_name = Some(v), !.p_blob_name = Yes]
      [] op = "with_delete_snapshots_method" ->
            [b EXCEPT !.delete_snapshots_method = v,
                      !.p_delete_snapshots_method = Yes]
      [] op = "with_timeout" -> [b EXCEPT !.timeout = Some(v)]
      [] op = "with_lease_id" -> [b EXCEPT !.lease_id = Some(v)]
      [] op = "with_client_request_id" -> [b EXCEPT !.client_request_id = Some(v)]

OptionalField(b, op) ==
    CASE op = "with_timeout" -> b.timeout
      [] op = "with_lease_id" -> b.lease_id
      [] op = "with_client_request_id" -> b.client_request_id

Mandatory(b) ==
    <<b.p_container_name, b.p_blob_name, b.p_delete_snapshots_method,
      b.container_name, b.blob_name, b.delete_snapshots_method>>

(***************************************************************************)
(* C1: finalize() is available only on a builder on whose chain            *)
(* with_container_name, with_blob_name and with_delete_snapshots_method    *)
(* have each been called; the Include stored by new() does not make        *)
(* delete_snapshots_method count as supplied.                              *)
(***************************************************************************)
C1_FinalizeOnlyAfterMandatoryCalls ==
    (FinalizeAvailable(builder) \/ pc # "building") =>
        \A s \in MandatorySetters : args[s] # None

\* finalize() has run on a chain that chose Include by an explicit call
C1_Witness ==
    /\ last.op = "finalize"
    /\ request # None
    /\ args["with_delete_snapshots_method"] = Some("Include")
    /\ args["with_container_name"] # None
    /\ args["with_blob_name"] # None

(***************************************************************************)
(* C2: whatever the order in which the three mandatory setters were first  *)
(* called, and wherever optional setters were called in between, the       *)
(* builder is finalize-capable and equals the builder one fixed ordering   *)
(* of the same calls gives for the same arguments.                         *)
(***************************************************************************)
C2_AnyOrderSameBuilder ==
    (pc = "building" /\ Len(order) = 3) =>
        /\ FinalizeAvailable(builder)
        /\ builder = Canonical(builder.client, args)

\* the mandatory setters called in the reverse of the fixed ordering, with an
\* optional setter called before the last of them
C2_Witness ==
    /\ pc = "building"
    /\ order = <<"with_delete_snapshots_method", "with_blob_name",
                 "with_container_name">>
    /\ last.op = "with_container_name"
    /\ builder.timeout # None
    /\ builder.lease_id # None
    /\ FinalizeAvailable(builder)

(***************************************************************************)
(* C3: a with_* call changes its own field and, for a mandatory setter,    *)
(* sets that field's marker; the client, every other field and every other *)
(* marker of the builder it returns are those of the builder it was given. *)
(***************************************************************************)
C3_SetterChangesOnlyItsField ==
    [][last'.op \in Setters =>
          builder' = SetterEffect(builder, last'.op, last'.arg[1])]_vars

\* a mandatory setter has acted on a builder whose other fields were all set
C3_Witness ==
    /\ last = Call("with_blob_name", Some("b2"))
    /\ builder.blob_name = Some("b2")
    /\ builder.container_name = Some("c")
    /\ builder.p_delete_snapshots_method = Yes
    /\ builder.delete_snapshots_method = "Only"
    /\ builder.timeout = Some(30)
    /\ builder.lease_id = Some("lease-1")
    /\ builder.client_request_id = Some("req-1")
    /\ builder.client = "acct2"

(***************************************************************************)
(* C4: on every reachable builder for which an accessor exists (its        *)
(* marker is Yes) the field holds a value: container_name() and            *)
(* blob_name() do not panic, delete_snapshots_method() returns the value   *)
(* the caller supplied.                                                    *)
(***************************************************************************)
C4_SetFieldHoldsValue ==
    /\ ContainerNameRequired(builder) =>
          /\ builder.container_name # None
          /\ container_name(builder) \in ContainerNames
    /\ BlobNameRequired(builder) =>
          /\ builder.blob_name # None
          /\ blob_name(builder) \in BlobNames
    /\ DeleteSnapshotsMethodRequired(builder) =>
          Some(delete_snapshots_method(builder)) = args["with_delete_snapshots_method"]

\* with_container_name has just made container_name() available
C4_Witness ==
    /\ last = Call("with_container_name", Some("c2"))
    /\ ContainerNameRequired(builder)
    /\ container_name(builder) = "c2"
    /\ ~BlobNameRequired(builder)
    /\ ~DeleteSnapshotsMethodRequired(builder)

(***************************************************************************)
(* C5: an optional setter called on a builder whose optional field already *)
(* holds a value stores the new argument, and leaves the three markers and *)
(* the three mandatory values as they were.                                *)
(***************************************************************************)
C5_OptionalLastWriteWins ==
    [][(last'.op \in OptionalSetters /\ OptionalField(builder, last'.op) # None) =>
          /\ OptionalField(builder', last'.op) = last'.arg
          /\ Mandatory(builder') = Mandatory(builder)]_vars

\* with_timeout has replaced a different timeout on a complete builder
C5_Witness ==
    /\ last = Call("with_timeout", Some(60))
    /\ overwrote
    /\ builder.timeout = Some(60)
    /\ FinalizeAvailable(builder)

(***************************************************************************)
(* C6: a with_* call that repeats the call made right before it, with the  *)
(* same argument, returns a builder equal to the one it was given: twice   *)
(* is the same as once.                                                    *)
(***************************************************************************)
C6_SetterIdempotent ==
    [][(last'.op \in Setters /\ last' = last) => builder' = builder]_vars

\* an optional setter has been called twice in a row with one argument
C6_Witness ==
    /\ repeated
    /\ last = Call("with_client_request_id", Some("req-2"))
    /\ builder.client_request_id = Some("req-2")

(***************************************************************************)
(* C7: the URI finalize() hands to the Client is the generated blob URI,   *)
(* followed by "?timeout=<seconds>" exactly when timeout is set; lease_id, *)
(* client_request_id and delete_snapshots_method add nothing to it.        *)
(***************************************************************************)
C7_UriHasOnlyTimeoutQuery ==
    request # None =>
        request[1].uri =
            IF builder.timeout = None
            THEN generate_blob_uri(builder)
            ELSE generate_blob_uri(builder) \o "?timeout="
                     \o ToString(builder.timeout[1])

\* container "c", blob "b", timeout 30, with a lease and a request id set
C7_Witness ==
    /\ request # None
    /\ builder.timeout = Some(30)
    /\ builder.lease_id # None
    /\ builder.client_request_id # None
    /\ request[1].uri = "https://acct1.blob.core.windows.net/c/b?timeout=30"

(***************************************************************************)
(* C8: the request finalize() issues is a DELETE without body; its headers *)
(* are the snapshot directive with the wire value of the builder's         *)
(* delete_snapshots_method, the lease header exactly when lease_id is set, *)
(* the client-request-id header exactly when client_request_id is set.     *)
(***************************************************************************)
C8_RequestHeaders ==
    request # None =>
        LET h == request[1].headers IN
        /\ request[1].method = "DELETE"
        /\ request[1].body = None
        /\ \/ builder.delete_snapshots_method = "Include"
              /\ <<"x-ms-delete-snapshots", "include">> \in Range(h)
           \/ builder.delete_snapshots_method = "Only"
              /\ <<"x-ms-delete-snapshots", "only">> \in Range(h)
        /\ "x-ms-lease-id" \in HeaderNames(h) <=> builder.lease_id # None
        /\ builder.lease_id # None =>
              <<"x-ms-lease-id", builder.lease_id[1]>> \in Range(h)
        /\ "x-ms-client-request-id" \in HeaderNames(h) <=>
              builder.client_request_id # None
        /\ builder.client_request_id # None =>
              <<"x-ms-client-request-id", builder.client_request_id[1]>> \in Range(h)
        /\ Cardinality(HeaderNames(h)) = Len(h)
        /\ HeaderNames(h) \subseteq
              {"x-ms-delete-snapshots", "x-ms-lease-id", "x-ms-client-request-id"}

\* Only, a lease and no client request id: the directive and the lease header
C8_Witness ==
    /\ request # None
    /\ builder.delete_snapshots_method = "Only"
    /\ builder.lease_id = Some("lease-2")
    /\ builder.client_request_id = None
    /\ request[1].headers =
          << <<"x-ms-delete-snapshots", "only">>, <<"x-ms-lease-id", "lease-2">> >>

(***************************************************************************)
(* C9: when the transport response has a status other than 202, the       *)
(* future resolves to the unexpected-status error carrying that status,    *)
(* and DeleteBlobResponse::from_headers is not executed.                   *)
(***************************************************************************)
C9_UnexpectedStatusSkipsParsing ==
    (response # None /\ response[1].status # 202) =>
        /\ "from_headers" \notin Range(steps)
        /\ ~fut[1].ok
        /\ fut[1].err.kind = "UnexpectedStatus"
        /\ fut[1].err.code = response[1].status

\* a 404 whose headers would have parsed, resolved as UnexpectedStatus(404)
C9_Witness ==
    /\ pc = "resolved"
    /\ response # None
    /\ response[1].status = 404
    /\ response[1].headers # {}
    /\ fut = Some(Err([kind |-> "UnexpectedStatus", code |-> 404,
                       body |-> "BlobNotFound"]))

(***************************************************************************)
(* C10: when Client::perform_request returns a failure, the future         *)
(* resolves to that error, and neither the status check nor the header     *)
(* parsing is executed.                                                    *)
(***************************************************************************)
C10_TransportErrorPropagates ==
    (req # None /\ ~req[1].ok) =>
        /\ fut = req
        /\ response = None
        /\ "check_status_extract_headers_and_body" \notin Range(steps)
        /\ "from_headers" \notin Range(steps)

\* a refused connection, resolved as that transport error
C10_Witness ==
    /\ pc = "resolved"
    /\ req = Some(Err([kind |-> "TransportError", cause |-> "connection refused"]))
    /\ fut = req
    /\ steps = FinalizeSteps

(***************************************************************************)
(* One chain whose caller may clone the builder. The setters take one      *)
(* argument value each and the service answers with every status and its   *)
(* request-id header, so that the clones stay few.                         *)
(***************************************************************************)
NextClone ==
    \/ \E c \in Clients : New(c)
    \/ WithContainerName(NamePoolC[1])
    \/ WithBlobName(NamePoolB[1])
    \/ WithDeleteSnapshotsMethod("Only")
    \/ WithTimeout(30)
    \/ WithLeaseId(LeasePool[1])
    \/ WithClientRequestId(RequestIdPool[1])
    \/ Clone
    \/ UseClone
    \/ \E r \in PerformRequestResults : Finalize(r)
    \/ \E resp \in {x \in Responses : x.headers # {}} :
          AndThenCheckStatus(resp)
    \/ AndThenFromHeaders

SpecClone == Init /\ [][NextClone]_vars

(***************************************************************************)
(* Two chains from one Client, their steps interleaved in every way. Each  *)
(* setter takes one argument value, the two chains different ones. The     *)
(* first chain may start over from new(); neither chain is cloned.         *)
(***************************************************************************)
NextTwo ==
    \/ \E c \in Clients : New(c)
    \/ WithContainerName(NamePoolC[1])
    \/ WithBlobName(NamePoolB[1])
    \/ WithDeleteSnapshotsMethod("Include")
    \/ WithTimeout(30)
    \/ WithLeaseId(LeasePool[1])
    \/ WithClientRequestId(RequestIdPool[1])
    \/ \E r \in PerformRequestResults : Finalize(r)
    \/ \E resp \in Responses : AndThenCheckStatus(resp)
    \/ AndThenFromHeaders
    \/ NewOther
    \/ OtherWithContainerName(NamePoolC[2])
    \/ OtherWithBlobName(NamePoolB[2])
    \/ OtherWithDeleteSnapshotsMethod("Only")
    \/ OtherWithTimeout(60)
    \/ OtherWithLeaseId(LeasePool[2])
    \/ OtherWithClientRequestId(RequestIdPool[2])
    \/ OtherFinalize

SpecTwo == Init /\ [][NextTwo]_vars

Count(seq, x) == Cardinality({i \in 1..Len(seq) : seq[i] = x})

\* the positions of x in seq
Positions(seq, x) == {i \in 1..Len(seq) : seq[i] = x}

(***************************************************************************)
(* C11: a resolved finalize() has one outcome. It is a Response exactly    *)
(* when the transport call succeeded, the status was 202 and the response  *)
(* headers parsed; otherwise it is the error of the first stage that       *)
(* failed. Headers that do not parse after a 202 give the parse error, not *)
(* a defaulted Response.                                                   *)
(***************************************************************************)
C11_OneOutcomePerStage ==
    pc = "resolved" =>
        LET transportOk == req[1].ok
            statusOk == response # None /\ response[1].status = 202
            parsed == response # None
                      /\ \E h \in response[1].headers : h[1] = "x-ms-request-id"
        IN  /\ fut # None
            /\ fut[1].ok <=> (transportOk /\ statusOk /\ parsed)
            /\ fut[1].ok => fut[1].val \in {[request_id |-> h[2]] : h \in response[1].headers}
            /\ ~transportOk => fut[1] = Err(req[1].err)
            /\ (transportOk /\ ~statusOk) =>
                  /\ ~fut[1].ok
                  /\ fut[1].err.kind = "UnexpectedStatus"
            /\ (transportOk /\ statusOk /\ ~parsed) =>
                  fut[1] = Err([kind |-> "ResponseParseError"])

\* a 202 without the request id header resolved as the parse error
C11_Witness ==
    /\ pc = "resolved"
    /\ req[1].ok
    /\ response # None
    /\ response[1].status = 202
    /\ response[1].headers = {}
    /\ fut = Some(Err([kind |-> "ResponseParseError"]))

(***************************************************************************)
(* C12: a finalize() call invokes Client::perform_request once, whatever   *)
(* the transport call, the status check or the header parsing gives; no    *)
(* failure makes it issue the request again.                               *)
(***************************************************************************)
C12_AtMostOneRequest ==
    /\ Count(steps, "perform_request") <= 1
    /\ Count(steps, "send") <= 1
    /\ request # None => Count(steps, "perform_request") = 1

\* an unexpected status went through every stage with one perform_request
C12_Witness ==
    /\ pc = "resolved"
    /\ response # None
    /\ response[1].status = 200
    /\ ~fut[1].ok
    /\ Count(steps, "perform_request") = 1

(***************************************************************************)
(* C13: within finalize(), the URI generation, the timeout query append    *)
(* and the three add_header calls all come before the network call.        *)
(***************************************************************************)
C13_RequestBuiltBeforeSend ==
    steps # <<>> =>
        /\ Positions(steps, "send") # {}
        /\ \A built \in {"generate_blob_uri", "to_uri_parameter"}
                           \cup Range(HeaderClosureSteps) :
              /\ Positions(steps, built) # {}
              /\ \A i \in Positions(steps, built) :
                    \A j \in Positions(steps, "send") : i < j

\* finalize() has returned with a timeout, a lease and a request id to add
C13_Witness ==
    /\ pc = "and_then_check_status"
    /\ steps[Len(steps)] = "send"
    /\ builder.timeout # None
    /\ builder.lease_id # None
    /\ builder.client_request_id # None
    /\ request # None

(***************************************************************************)
(* C16: along a chain a mandatory field that is set stays set and keeps a  *)
(* value under every later with_* call, so a finalize-capable builder      *)
(* stays finalize-capable.                                                 *)
(***************************************************************************)
C16_CompletenessMonotonic ==
    [][last'.op \in Setters =>
          /\ ContainerNameRequired(builder) =>
                ContainerNameRequired(builder') /\ builder'.container_name # None
          /\ BlobNameRequired(builder) =>
                BlobNameRequired(builder') /\ builder'.blob_name # None
          /\ DeleteSnapshotsMethodRequired(builder) =>
                DeleteSnapshotsMethodRequired(builder')
          /\ FinalizeAvailable(builder) => FinalizeAvailable(builder')]_vars

\* a mandatory setter called again on a complete builder left it complete
C16_Witness ==
    /\ last = Call("with_delete_snapshots_method", Some("Only"))
    /\ overwrote
    /\ FinalizeAvailable(builder)
    /\ builder.container_name # None
    /\ builder.blob_name # None

(***************************************************************************)
(* C17: the snapshot directive finalize() sends is the argument of the     *)
(* most recent with_delete_snapshots_method call of the chain; it is the   *)
(* Include stored by new() only when such a call passed Include.           *)
(***************************************************************************)
C17_DirectiveIsLastChoice ==
    request # None =>
        /\ args["with_delete_snapshots_method"] # None
        /\ LET m == args["with_delete_snapshots_method"][1]
               sent == {request[1].headers[i][2] :
                           i \in Positions([k \in 1..Len(request[1].headers) |->
                                               request[1].headers[k][1]],
                                           "x-ms-delete-snapshots")}
           IN  sent = {IF m = "Only" THEN "only" ELSE "include"}

\* the chain chose Only, and "only" went out instead of the stored Include
C17_Witness ==
    /\ request # None
    /\ args["with_delete_snapshots_method"] = Some("Only")
    /\ <<"x-ms-delete-snapshots", "only">> \in Range(request[1].headers)
    /\ <<"x-ms-delete-snapshots", "include">> \notin Range(request[1].headers)

(***************************************************************************)
(* C18: a mandatory setter called on a builder whose field is already set  *)
(* stores the new argument and leaves the field marked set, and the        *)
(* request finalize() builds uses the last value given for each mandatory  *)
(* field.                                                                  *)
(***************************************************************************)
C18_MandatoryLastWriteWins ==
    /\ [][(last'.op = "with_container_name" /\ ContainerNameRequired(builder)) =>
             /\ builder'.container_name = last'.arg
             /\ ContainerNameRequired(builder')]_vars
    /\ [][(last'.op = "with_blob_name" /\ BlobNameRequired(builder)) =>
             /\ builder'.blob_name = last'.arg
             /\ BlobNameRequired(builder')]_vars
    /\ [][(last'.op = "with_delete_snapshots_method"
              /\ DeleteSnapshotsMethodRequired(builder)) =>
             /\ Some(builder'.delete_snapshots_method) = last'.arg
             /\ DeleteSnapshotsMethodRequired(builder')]_vars
    /\ [](request # None =>
             /\ request[1].uri \in
                   {u \o q : u \in {"https://" \o request[1].client
                                       \o ".blob.core.windows.net/"
                                       \o args["with_container_name"][1] \o "/"
                                       \o args["with_blob_name"][1]},
                             q \in {""} \cup {"?timeout=" \o ToString(t) : t \in Timeouts}}
             /\ <<"x-ms-delete-snapshots",
                  IF args["with_delete_snapshots_method"][1] = "Only"
                  THEN "only" ELSE "include">> \in Range(request[1].headers))

\* with_blob_name has replaced the blob name of a complete builder
C18_Witness ==
    /\ last = Call("with_blob_name", Some("b2"))
    /\ overwrote
    /\ builder.blob_name = Some("b2")
    /\ BlobNameRequired(builder)
    /\ FinalizeAvailable(builder)

(***************************************************************************)
(* C14 as stated: a builder is consumed exactly once by finalize(), so one *)
(* logical builder (one new() and what is derived from it) yields at most  *)
(* one request. It fails: a clone taken before finalize() is finalized too.*)
(***************************************************************************)
C14_OneRequestPerLogicalBuilder == issued <= 1

(***************************************************************************)
(* C14 amended: finalize() consumes the builder value it is applied to: no *)
(* with_* call and no second finalize() follows on that value. A clone is  *)
(* a value of its own, so a chain issues at most one request per builder   *)
(* value it holds: the one from new() and each clone.                      *)
(***************************************************************************)
C14_OneRequestPerBuilderValue ==
    /\ [](issued <= made)
    /\ [][pc # "building" => (last'.op \notin Setters /\ issued' <= issued)]_vars

\* the original and its clone have both been finalized
C14_Witness ==
    /\ made = 2
    /\ issued = 2
    /\ pc = "resolved"
    /\ last.op = "finalize"

\* the request the contract describes for the fields of the builder b
ExpectedRequest(b) ==
    LET base == "https://" \o b.client \o ".blob.core.windows.net/"
                    \o b.container_name[1] \o "/" \o b.blob_name[1]
    IN  [client |-> b.client,
         uri |-> IF b.timeout = None THEN base
                 ELSE base \o "?timeout=" \o ToString(b.timeout[1]),
         method |-> "DELETE",
         headers |->
             << <<"x-ms-delete-snapshots",
                  IF b.delete_snapshots_method = "Only" THEN "only" ELSE "include">> >>
             \o (IF b.lease_id = None THEN <<>>
                 ELSE << <<"x-ms-lease-id", b.lease_id[1]>> >>)
             \o (IF b.client_request_id = None THEN <<>>
                 ELSE << <<"x-ms-client-request-id", b.client_request_id[1]>> >>),
         body |-> None]

(***************************************************************************)
(* C15: two chains from one Client are independent under every             *)
(* interleaving: a step of one chain leaves the builder, the markers and   *)
(* the request of the other as they were, and the request each finalize()  *)
(* issues is built from the fields of its own builder.                     *)
(***************************************************************************)
C15_ChainsIndependent ==
    /\ [][other' # other => UNCHANGED chain1]_vars
    /\ [][chain1' # chain1 => other' = other]_vars
    /\ [](request # None => request[1] = ExpectedRequest(builder))
    /\ []((other # None /\ other[1].request # None) =>
             other[1].request[1] = ExpectedRequest(other[1].builder))

\* both chains have issued a request for the same Client, each with its own
\* container, blob, snapshot method, timeout, lease and client request id
C15_Witness ==
    /\ request # None
    /\ other # None
    /\ other[1].request # None
    /\ request[1].client = other[1].request[1].client
    /\ request[1].uri = "https://acct1.blob.core.windows.net/c/b?timeout=30"
    /\ other[1].request[1].uri = "https://acct1.blob.core.windows.net/c2/b2?timeout=60"
    /\ <<"x-ms-lease-id", "lease-1">> \in Range(request[1].headers)
    /\ <<"x-ms-lease-id", "lease-2">> \in Range(other[1].request[1].headers)
    /\ <<"x-ms-delete-snapshots", "only">> \in Range(other[1].request[1].headers)
    /\ <<"x-ms-client-request-id", RequestIdPool[1]>> \in Range(request[1].headers)
    /\ <<"x-ms-client-request-id", RequestIdPool[2]>>
           \in Range(other[1].request[1].headers)
====
